---------------------------- MODULE Spec2Model ----------------------------
(***************************************************************************)
(* Agent run streaming (packages/server/src/api/controllers/ai/agents.ts,  *)
(* agentChatStream) and the chat box that reconciles the streamed events   *)
(* into response segments (packages/frontend-core/src/components/Chatbox/  *)
(* index.svelte).                                                          *)
(*                                                                         *)
(* Conventions.  A JavaScript string that the code only compares or passes *)
(* on (an id, an error message) is a TLA+ string, "" standing for the      *)
(* empty string and for undefined alike (both are falsy and the code only  *)
(* tests truthiness).  A string whose characters matter (streamed text,    *)
(* message content) is a sequence of one-character strings, so that        *)
(* concatenation, trim() and join() are computed.  A placeholder           *)
(* {{toolResult:component:<id>}} inside message content is one element of  *)
(* that sequence.  A JSON text is the record of what JSON.parse makes of   *)
(* it.  The timestamp of an event is not modelled.                         *)
(***************************************************************************)
EXTENDS Integers, Sequences, FiniteSets, TLC

\* The number of chunks the provider stream yields at most in one run.
MaxChunks == 3

\* the length of the text of an assistant message of a stored chat
MaxLen == 3

VARIABLES
    \* ---- server: one invocation of agentChatStream
    pc,                 \* "idle" | "stream" | "title" | "put" | "closed"
    reqChat,            \* ctx.request.body
    runId, responseId,
    sequence,
    activeTextItemId,
    accumulatedText,
    written,            \* the events written to ctx.res, in order
    finalMessages,
    totalTokens,
    db,                 \* the documents put to the workspace database
    uuids,              \* how many identifiers randomUUID has handed out
    consumed,           \* the chunks taken from model.chatStream so far
    fatal,              \* history: which fatal error the run met, "" for none
    toolMessages,       \* history: the tool messages of the run's transcript
    \* ---- client: the Chatbox component
    chat,               \* the chat prop
    updatedChat,        \* prompt()'s local copy of the chat
    loading,
    responseStates,     \* Map responseId -> ResponseState, in insertion order
    itemToResponse,     \* Map item id -> [responseId, segmentIndex]
    messageResponseMap, \* Map message index -> responseId
    toolCallComponentMap,
    componentLoading,
    activeResponseId,   \* "" for null
    lastHydratedKey,    \* "" for null
    delivered           \* the events of the run passed to the stream callback

serverVars == <<pc, reqChat, runId, responseId, sequence, activeTextItemId,
                accumulatedText, written, finalMessages, totalTokens, db,
                uuids, consumed, fatal, toolMessages>>

clientVars == <<chat, updatedChat, loading, responseStates, itemToResponse,
                messageResponseMap, toolCallComponentMap, componentLoading,
                activeResponseId, lastHydratedKey, delivered>>

vars == <<serverVars, clientVars>>

-----------------------------------------------------------------------------
(* JavaScript values *)

\* A value is a record tagged by .t, JavaScript's typeof ("null" apart).  A
\* string is JStr when its characters matter and JId when it is an identifier.
Undefined == [t |-> "undefined"]
JStr(s) == [t |-> "string", s |-> s]
JId(id) == [t |-> "string", id |-> id]
JNum == [t |-> "number"]
JTrue == [t |-> "boolean", b |-> TRUE]
JObj(fields) == [t |-> "object", f |-> fields]

\* randomUUID(): the n-th identifier handed out
UUID(n) == "uuid-" \o ToString(n)

\* A JSON text is the record [json |-> kind, f |-> fields]:
\*   "malformed"  not JSON at all            JSON.parse throws
\*   "empty"      the empty string           JSON.parse throws
\*   "scalar"     a number                   JSON.parse gives the number
\*   "null"       null
\*   "object"     an object with fields f
JSONParse(text) ==
    CASE text.json = "object" -> [ok |-> TRUE, value |-> JObj(text.f)]
      [] text.json = "scalar" -> [ok |-> TRUE, value |-> JNum]
      [] text.json = "null"   -> [ok |-> TRUE, value |-> [t |-> "null"]]
      [] OTHER                -> [ok |-> FALSE, value |-> Undefined]

\* obj.name (undefined when the object has no such field)
Field(obj, name) == IF name \in DOMAIN obj.f THEN obj.f[name] ELSE Undefined

IsString(v) == v.t = "string"

\* the length of a string value
StrLen(v) == IF "s" \in DOMAIN v THEN Len(v.s) ELSE Len(v.id)

Truthy(v) ==
    CASE v.t = "undefined" -> FALSE
      [] v.t = "null"      -> FALSE
      [] v.t = "string"    -> StrLen(v) > 0
      [] v.t = "boolean"   -> v.b
      [] OTHER             -> TRUE

-----------------------------------------------------------------------------
(* The provider stream: what model.chatStream(prompt) can yield *)

NoFields == [message |-> Undefined, component |-> Undefined,
             removeComponentMessage |-> Undefined, componentId |-> Undefined]

\* the text of a tool result: an object with the given directive fields
ResultText(message, component, remove, componentId) ==
    [json |-> "object",
     f |-> [message |-> message, component |-> component,
            removeComponentMessage |-> remove, componentId |-> componentId]]

MalformedText == [json |-> "malformed", f |-> NoFields]
EmptyText == [json |-> "empty", f |-> NoFields]
ScalarText == [json |-> "scalar", f |-> NoFields]

\* a component payload, with or without an embedded componentId
Component(id) == JObj([name |-> JId("form"), componentId |-> JId(id)])
AnonComponent == JObj([name |-> JId("form"), componentId |-> Undefined])

ContentChunk(content) == [type |-> "content", content |-> content]
ToolCallStartChunk(id, arguments) ==
    [type |-> "tool_call_start",
     toolCall |-> [id |-> id, name |-> "tool", arguments |-> arguments]]
ToolCallResultChunk(id, result, error) ==
    [type |-> "tool_call_result",
     toolResult |-> [id |-> id, result |-> result, error |-> error]]
ErrorChunk(content) == [type |-> "error", content |-> content]
DoneChunk(messages, tokensUsed) ==
    [type |-> "done", messages |-> messages, tokensUsed |-> tokensUsed]

\* A message of a chat.  The content of a tool message is a JSON text and is
\* kept in .json; every other message keeps its text in .content.
Message(role, content) ==
    [role |-> role, content |-> content, tool_call_id |-> "", tool_calls |-> <<>>,
     json |-> EmptyText]

ToolMessage(id, text) ==
    [role |-> "tool", content |-> <<>>, tool_call_id |-> id, tool_calls |-> <<>>,
     json |-> text]

ContentChunks == {ContentChunk(<<"a">>), ContentChunk(<<" ">>)}

ToolCallStartChunks ==
    {ToolCallStartChunk("t1", a) :
        a \in {[json |-> "object",
                f |-> [componentId |-> JId("c1"), componentID |-> Undefined]],
               MalformedText, ScalarText}}

ResultTexts ==
    {ResultText(Undefined, Component("c1"), Undefined, Undefined),
     ResultText(Undefined, AnonComponent, Undefined, Undefined),
     ResultText(JStr(<<"m">>), Undefined, Undefined, Undefined),
     ResultText(JStr(<<"m">>), Component("c1"), Undefined, Undefined),
     ResultText(JStr(<<"m">>), Undefined, JTrue, JId("c1")),
     ResultText(JStr(<<" ">>), Undefined, JTrue, JId("c1")),
     ResultText(Undefined, Undefined, JTrue, JId("c1")),
     ResultText(JStr(<<>>), Undefined, JTrue, JNum),
     MalformedText, ScalarText, EmptyText}

ToolCallResultChunks ==
    {ToolCallResultChunk("t1", r, <<>>) : r \in ResultTexts}
    \cup {ToolCallResultChunk("t1",
            ResultText(JStr(<<"m">>), Component("c1"), JTrue, JId("c1")), <<"failed">>)}

ErrorChunks == {ErrorChunk(<<"x">>), ErrorChunk(<<>>)}

DoneChunks ==
    {DoneChunk(<<>>, 0),
     DoneChunk(<<Message("user", <<"q">>), Message("assistant", <<"a">>)>>, 12)}

\* chunks the loop of agentChatStream has no branch for
OtherChunks == {[type |-> "chat_saved"], ContentChunk(<<>>)}

-----------------------------------------------------------------------------
(* agentChatStream: the run emitter *)

\* The locals of one invocation that the emit helpers read and write, as one
\* record, so that a handler is the composition of its statements.
Run == [runId |-> runId, responseId |-> responseId, sequence |-> sequence,
        activeTextItemId |-> activeTextItemId,
        accumulatedText |-> accumulatedText, written |-> written,
        uuids |-> uuids]

\* a faulty emitEventInternal: the sequence counter is read but not advanced
emitEventInternalSameSequence(r, event) ==
    [r EXCEPT
        !.written = Append(@, event @@ [eventId |-> UUID(r.uuids + 1),
                                        runId |-> r.runId,
                                        sequence |-> r.sequence]),
        !.uuids = @ + 1]

\* emitEventInternal: eventId, runId and sequence are added, sequence++
emitEventInternal(r, event) ==
    [r EXCEPT
        !.written = Append(@, event @@ [eventId |-> UUID(r.uuids + 1),
                                        runId |-> r.runId,
                                        sequence |-> r.sequence]),
        !.sequence = @ + 1,
        !.uuids = @ + 1]

TextItem(id, text) == [id |-> id, type |-> "text", role |-> "assistant", text |-> text]

emitResponseStarted(r, agentId) ==
    emitEventInternal(r, [type |-> "response.started",
                          responseId |-> r.responseId,
                          metadata |-> [agentId |-> agentId]])

emitOutputItemCreated(r, item) ==
    emitEventInternal(r, [type |-> "response.output_item.created",
                          responseId |-> r.responseId, item |-> item])

emitOutputTextDelta(r, itemId, delta) ==
    emitEventInternal(r, [type |-> "response.output_text.delta",
                          responseId |-> r.responseId, itemId |-> itemId,
                          delta |-> delta])

emitOutputTextCompleted(r, itemId, text) ==
    emitEventInternal(r, [type |-> "response.output_text.completed",
                          responseId |-> r.responseId, itemId |-> itemId,
                          text |-> text])

emitOutputItemUpdated(r, itemId, patch) ==
    emitEventInternal(r, [type |-> "response.output_item.updated",
                          responseId |-> r.responseId, itemId |-> itemId,
                          patch |-> patch])

emitToolCallStarted(r, callId, name, arguments) ==
    emitEventInternal(r, [type |-> "response.tool_call.started",
                          responseId |-> r.responseId, callId |-> callId,
                          name |-> name, arguments |-> arguments])

\* a faulty emitter: every tool call is reported as a success
emitToolCallCompletedAsSuccess(r, callId, status, result, error) ==
    emitEventInternal(r, [type |-> "response.tool_call.completed",
                          responseId |-> r.responseId, callId |-> callId,
                          status |-> "success", result |-> result, error |-> error])

emitToolCallCompleted(r, callId, status, result, error) ==
    emitEventInternal(r, [type |-> "response.tool_call.completed",
                          responseId |-> r.responseId, callId |-> callId,
                          status |-> status, result |-> result, error |-> error])

emitRunCompleted(r, tokensUsed) ==
    emitEventInternal(r, [type |-> "response.completed",
                          responseId |-> r.responseId, tokensUsed |-> tokensUsed])

emitRunError(r, message) ==
    emitEventInternal(r, [type |-> "response.error",
                          responseId |-> r.responseId,
                          error |-> [message |-> message, retryable |-> FALSE]])

\* a faulty emitRunSaved: the revision is set even when the store gave none
emitRunSavedWithAnyRevision(r, chatId, revision, tokensUsed) ==
    emitEventInternal(r,
        [type |-> "response.saved", responseId |-> r.responseId,
         chatId |-> chatId, metadata |-> [tokensUsed |-> tokensUsed],
         revision |-> revision])

emitRunSaved(r, chatId, revision, tokensUsed) ==
    emitEventInternal(r,
        IF revision # ""
        THEN [type |-> "response.saved", responseId |-> r.responseId,
              chatId |-> chatId, metadata |-> [tokensUsed |-> tokensUsed],
              revision |-> revision]
        ELSE [type |-> "response.saved", responseId |-> r.responseId,
              chatId |-> chatId, metadata |-> [tokensUsed |-> tokensUsed]])

\* ensureTextItem: opens the run's text item on first use
ensureTextItem(r) ==
    IF r.activeTextItemId = ""
    THEN LET id == UUID(r.uuids + 1)
             r1 == [r EXCEPT !.activeTextItemId = id, !.uuids = @ + 1]
         IN emitOutputItemCreated(r1, TextItem(id, <<>>))
    ELSE r

\* chunk.type === "content" && chunk.content
onContent(r, chunk) ==
    LET r1 == ensureTextItem(r)
        r2 == [r1 EXCEPT !.accumulatedText = @ \o chunk.content]
    IN emitOutputTextDelta(r2, r1.activeTextItemId, chunk.content)

\* a faulty tool_call_start branch: the open text item is closed first
onToolCallStartClosingText(r, chunk) ==
    LET text == IF chunk.toolCall.arguments.json = "empty"
                THEN [json |-> "object",
                      f |-> [componentId |-> Undefined, componentID |-> Undefined]]
                ELSE chunk.toolCall.arguments
        parsed == JSONParse(text)
        parsedArgs == IF parsed.ok THEN parsed.value
                      ELSE JObj([raw |-> chunk.toolCall.arguments])
        r1 == IF r.activeTextItemId # ""
              THEN [emitOutputTextCompleted(r, r.activeTextItemId, r.accumulatedText)
                      EXCEPT !.activeTextItemId = "", !.accumulatedText = <<>>]
              ELSE r
    IN emitToolCallStarted(r1, chunk.toolCall.id, chunk.toolCall.name, parsedArgs)

\* chunk.type === "tool_call_start" && chunk.toolCall
onToolCallStart(r, chunk) ==
    LET text == IF chunk.toolCall.arguments.json = "empty"
                THEN [json |-> "object",
                      f |-> [componentId |-> Undefined, componentID |-> Undefined]]
                ELSE chunk.toolCall.arguments
        parsed == JSONParse(text)
        parsedArgs == IF parsed.ok THEN parsed.value
                      ELSE JObj([raw |-> chunk.toolCall.arguments])
    IN emitToolCallStarted(r, chunk.toolCall.id, chunk.toolCall.name, parsedArgs)

\* the message directive of a tool result (lines 286-308)
messageDirective(r, toolResult, parsedObject) ==
    LET maybeMessage == Field(parsedObject, "message")
    IN IF IsString(maybeMessage) /\ StrLen(maybeMessage) > 0
       THEN LET itemId == UUID(r.uuids + 1)
                r1 == [r EXCEPT !.uuids = @ + 1]
                r2 == emitOutputItemCreated(r1,
                        TextItem(itemId, maybeMessage.s)
                          @@ [metadata |-> [sourceToolCallId |-> toolResult.id]])
            IN emitOutputTextCompleted(r2, itemId, maybeMessage.s)
       ELSE r

\* the component directive of a tool result (lines 310-328)
componentDirective(r, toolResult, parsedObject) ==
    LET maybeComponent == Field(parsedObject, "component")
    IN IF Truthy(maybeComponent) /\ maybeComponent.t = "object"
       THEN LET embedded == Field(maybeComponent, "componentId")
                fresh == ~Truthy(embedded)
                componentId == IF fresh THEN UUID(r.uuids + 1) ELSE embedded.id
                r1 == IF fresh THEN [r EXCEPT !.uuids = @ + 1] ELSE r
            IN emitOutputItemCreated(r1,
                 [id |-> componentId, type |-> "component", role |-> "assistant",
                  component |-> maybeComponent,
                  metadata |-> [sourceToolCallId |-> toolResult.id]])
       ELSE r

\* a faulty removeComponentMessage directive: the component is hidden by one
\* event and replaced by another
removeDirectiveInTwoEvents(r, toolResult, parsedObject) ==
    LET componentId == Field(parsedObject, "componentId")
        message == Field(parsedObject, "message")
    IN IF /\ Truthy(Field(parsedObject, "removeComponentMessage"))
          /\ Truthy(componentId)
          /\ IsString(componentId)
       THEN LET meta == [reason |-> "submitted", sourceToolCallId |-> toolResult.id]
                r1 == emitOutputItemUpdated(r, componentId.id,
                                            [state |-> "hidden", metadata |-> meta])
            IN IF IsString(message) /\ StrLen(message) > 0
               THEN emitOutputItemUpdated(
                      [r1 EXCEPT !.uuids = @ + 1], componentId.id,
                      [state |-> "hidden", metadata |-> meta,
                       replaceWith |->
                         TextItem(componentId.id \o "-result-" \o UUID(r1.uuids + 1),
                                  message.s)
                           @@ [metadata |-> [sourceToolCallId |-> toolResult.id]]])
               ELSE r1
       ELSE r

\* the removeComponentMessage directive of a tool result (lines 330-363)
removeDirective(r, toolResult, parsedObject) ==
    LET componentId == Field(parsedObject, "componentId")
        message == Field(parsedObject, "message")
    IN IF /\ Truthy(Field(parsedObject, "removeComponentMessage"))
          /\ Truthy(componentId)
          /\ IsString(componentId)
       THEN LET meta == [reason |-> "submitted", sourceToolCallId |-> toolResult.id]
                replace == IsString(message) /\ StrLen(message) > 0
                patch ==
                    IF replace
                    THEN [state |-> "hidden", metadata |-> meta,
                          replaceWith |->
                            TextItem(componentId.id \o "-result-" \o UUID(r.uuids + 1),
                                     message.s)
                              @@ [metadata |-> [sourceToolCallId |-> toolResult.id]]]
                    ELSE [state |-> "hidden", metadata |-> meta]
                r1 == IF replace THEN [r EXCEPT !.uuids = @ + 1] ELSE r
            IN emitOutputItemUpdated(r1, componentId.id, patch)
       ELSE r

\* a faulty result branch: the directives of a failed tool call are applied
onToolCallResultIgnoringError(r, chunk) ==
    LET toolResult == chunk.toolResult
        raw == [t |-> "string", raw |-> toolResult.result]
        parsed == IF toolResult.result.json # "empty"
                  THEN JSONParse(toolResult.result)
                  ELSE [ok |-> FALSE, value |-> Undefined]
        parsedResult == IF parsed.ok /\ Truthy(parsed.value) /\ parsed.value.t = "object"
                        THEN parsed.value
                        ELSE raw
        failed == Len(toolResult.error) > 0
        r1 == emitToolCallCompleted(r, toolResult.id,
                IF failed THEN "error" ELSE "success",
                IF failed THEN Undefined ELSE parsedResult,
                IF failed THEN [message |-> toolResult.error] ELSE Undefined)
    IN IF parsedResult.t = "object"
       THEN removeDirective(
              componentDirective(
                messageDirective(r1, toolResult, parsedResult),
                toolResult, parsedResult),
              toolResult, parsedResult)
       ELSE r1

\* chunk.type === "tool_call_result" && chunk.toolResult
onToolCallResult(r, chunk) ==
    LET toolResult == chunk.toolResult
        raw == [t |-> "string", raw |-> toolResult.result]
        parsed == IF toolResult.result.json # "empty"
                  THEN JSONParse(toolResult.result)
                  ELSE [ok |-> FALSE, value |-> Undefined]
        parsedResult == IF parsed.ok /\ Truthy(parsed.value) /\ parsed.value.t = "object"
                        THEN parsed.value
                        ELSE raw
        failed == Len(toolResult.error) > 0
        r1 == emitToolCallCompleted(r, toolResult.id,
                IF failed THEN "error" ELSE "success",
                IF failed THEN Undefined ELSE parsedResult,
                IF failed THEN [message |-> toolResult.error] ELSE Undefined)
    IN IF ~failed /\ parsedResult.t = "object"
       THEN removeDirective(
              componentDirective(
                messageDirective(r1, toolResult, parsedResult),
                toolResult, parsedResult),
              toolResult, parsedResult)
       ELSE r1

\* a faulty error branch: the chunk's message is dropped
onErrorWithoutMessage(r, chunk) ==
    emitRunError(r, <<"An error occurred">>)

\* chunk.type === "error": the message falls back when the chunk has none
onError(r, chunk) ==
    emitRunError(r, IF Len(chunk.content) > 0 THEN chunk.content
                    ELSE <<"An error occurred">>)

\* a faulty done branch: response.completed goes out before the text is closed
onDoneCompletedFirst(r, chunk) ==
    LET r1 == emitRunCompleted(r, chunk.tokensUsed)
    IN IF r.activeTextItemId # ""
       THEN emitOutputTextCompleted(r1, r.activeTextItemId, r.accumulatedText)
       ELSE r1

\* chunk.type === "done": closes the open text item, then response.completed
onDone(r, chunk) ==
    LET r1 == IF r.activeTextItemId # ""
              THEN emitOutputTextCompleted(r, r.activeTextItemId, r.accumulatedText)
              ELSE r
    IN emitRunCompleted(r1, chunk.tokensUsed)

\* the tool-call summary addDebugInformation appends for one tool call (the
\* code fence is written ~~~ here)
ToolDebugInfo(toolCall) ==
    <<"\n", "**Tool:** ", toolCall.name, "\n", "**Parameters:**", "\n",
      "~~~json", "\n", toolCall.arguments, "\n", "~~~", "\n">>

RECURSIVE AllToolDebugInfo(_)
AllToolDebugInfo(toolCalls) ==
    IF toolCalls = <<>> THEN <<>>
    ELSE ToolDebugInfo(Head(toolCalls)) \o AllToolDebugInfo(Tail(toolCalls))

\* addDebugInformation: every assistant message with tool calls gets the
\* summary of its calls appended to its content
addDebugInformation(messages) ==
    [i \in 1..Len(messages) |->
        IF messages[i].role = "assistant" /\ Len(messages[i].tool_calls) > 0
        THEN [messages[i] EXCEPT
                !.content = @ \o <<"\n", "\n", "**Tool Calls:**", "\n">>
                              \o AllToolDebugInfo(messages[i].tool_calls)]
        ELSE messages[i]]

\* the document agentChatStream puts (lines 411-417)
NewChat(body, messages) ==
    [_id |-> body._id, _rev |-> body._rev, agentId |-> body.agentId,
     title |-> body.title, messages |-> addDebugInformation(messages)]

SetRun(r) ==
    /\ runId' = r.runId
    /\ responseId' = r.responseId
    /\ sequence' = r.sequence
    /\ activeTextItemId' = r.activeTextItemId
    /\ accumulatedText' = r.accumulatedText
    /\ written' = r.written
    /\ uuids' = r.uuids

\* a faulty Start: the loop is entered without response.started
StartWithoutResponseStarted ==
    /\ pc = "request"
    /\ SetRun([runId |-> UUID(uuids + 1), responseId |-> UUID(uuids + 2),
               sequence |-> 0, activeTextItemId |-> "", accumulatedText |-> <<>>,
               written |-> <<>>, uuids |-> uuids + 2])
    /\ pc' = "stream"
    /\ finalMessages' = <<>>
    /\ totalTokens' = 0
    /\ consumed' = 0
    /\ UNCHANGED <<reqChat, db, fatal, toolMessages>>
    /\ UNCHANGED clientVars

\* lines 103-218: the run's identifiers and counters, then response.started
Start ==
    /\ pc = "request"
    /\ SetRun(emitResponseStarted(
           [runId |-> UUID(uuids + 1), responseId |-> UUID(uuids + 2),
            sequence |-> 0, activeTextItemId |-> "", accumulatedText |-> <<>>,
            written |-> <<>>, uuids |-> uuids + 2],
           reqChat.agentId))
    /\ pc' = "stream"
    /\ finalMessages' = <<>>
    /\ totalTokens' = 0
    /\ consumed' = 0
    /\ UNCHANGED <<reqChat, db, fatal, toolMessages>>
    /\ UNCHANGED clientVars

\* one more chunk can be taken from model.chatStream
CanConsume == pc = "stream" /\ consumed < MaxChunks

OnContent ==
    /\ CanConsume
    /\ \E chunk \in ContentChunks : SetRun(onContent(Run, chunk))
    /\ consumed' = consumed + 1
    /\ UNCHANGED <<pc, reqChat, finalMessages, totalTokens, db, fatal, toolMessages>>
    /\ UNCHANGED clientVars

OnToolCallStart ==
    /\ CanConsume
    /\ \E chunk \in ToolCallStartChunks : SetRun(onToolCallStart(Run, chunk))
    /\ consumed' = consumed + 1
    /\ UNCHANGED <<pc, reqChat, finalMessages, totalTokens, db, fatal, toolMessages>>
    /\ UNCHANGED clientVars

OnToolCallResult ==
    /\ CanConsume
    /\ \E chunk \in ToolCallResultChunks :
        /\ SetRun(onToolCallResult(Run, chunk))
        /\ toolMessages' = Append(toolMessages,
                                  ToolMessage(chunk.toolResult.id, chunk.toolResult.result))
    /\ consumed' = consumed + 1
    /\ UNCHANGED <<pc, reqChat, finalMessages, totalTokens, db, fatal>>
    /\ UNCHANGED clientVars

\* a chunk no branch of the loop matches is skipped
OnOtherChunk ==
    /\ CanConsume
    /\ \E chunk \in OtherChunks : TRUE
    /\ consumed' = consumed + 1
    /\ UNCHANGED <<pc, reqChat, runId, responseId, sequence, activeTextItemId,
                   accumulatedText, written, finalMessages, totalTokens, db,
                   uuids, fatal, toolMessages>>
    /\ UNCHANGED clientVars

\* a faulty error branch: response.error is emitted but the loop goes on
OnErrorChunkContinues ==
    /\ CanConsume
    /\ \E chunk \in ErrorChunks : SetRun(onError(Run, chunk))
    /\ consumed' = consumed + 1
    /\ fatal' = "error chunk"
    /\ UNCHANGED <<pc, reqChat, finalMessages, totalTokens, db, toolMessages>>
    /\ UNCHANGED clientVars

\* the error chunk: response.error, ctx.res.end(), return
OnErrorChunk ==
    /\ CanConsume
    /\ \E chunk \in ErrorChunks : SetRun(onError(Run, chunk))
    /\ consumed' = consumed + 1
    /\ pc' = "closed"
    /\ fatal' = "error chunk"
    /\ UNCHANGED <<reqChat, finalMessages, totalTokens, db, toolMessages>>
    /\ UNCHANGED clientVars

\* a faulty persist step: the chat is saved whether or not the run left
\* final messages
AfterLoopAlwaysPersists(messages) ==
    /\ reqChat' = IF reqChat._id = ""
                  THEN [reqChat EXCEPT !._id = "agentchat_" \o ToString(uuids + 1)]
                  ELSE reqChat
    /\ pc' = IF reqChat.title = "" THEN "title" ELSE "put"

\* After the loop (lines 396-409, 439): with final messages the chat gets an
\* id if it has none, and the run goes on to the title prompt or the put;
\* without them the response is ended.
AfterLoop(messages) ==
    IF Len(messages) > 0
    THEN /\ reqChat' = IF reqChat._id = ""
                       THEN [reqChat EXCEPT !._id = "agentchat_" \o ToString(uuids + 1)]
                       ELSE reqChat
         /\ pc' = IF reqChat.title = "" THEN "title" ELSE "put"
    ELSE /\ reqChat' = reqChat
         /\ pc' = "closed"

\* the done chunk: response.completed, break
OnDone ==
    /\ CanConsume
    /\ \E chunk \in DoneChunks :
        /\ SetRun(onDone(Run, chunk))
        /\ finalMessages' = chunk.messages
        /\ totalTokens' = chunk.tokensUsed
        /\ AfterLoop(chunk.messages)
    /\ consumed' = consumed + 1
    /\ UNCHANGED <<db, fatal, toolMessages>>
    /\ UNCHANGED clientVars

\* the provider stream ends without a done chunk
StreamEnds ==
    /\ pc = "stream"
    /\ AfterLoop(finalMessages)
    /\ UNCHANGED <<runId, responseId, sequence, activeTextItemId, accumulatedText,
                   written, finalMessages, totalTokens, db, uuids, consumed, fatal, toolMessages>>
    /\ UNCHANGED clientVars

\* the catch block: response.error, ctx.res.end()
Catch(message, cause) ==
    /\ SetRun(emitRunError(Run, message))
    /\ pc' = "closed"
    /\ fatal' = cause

\* a faulty catch block: the failure of the stream ends the response
\* without a response.error
StreamThrowsSwallowed ==
    /\ pc = "stream"
    /\ pc' = "closed"
    /\ fatal' = "stream exception"
    /\ UNCHANGED <<runId, responseId, sequence, activeTextItemId, accumulatedText,
                   written, uuids>>
    /\ UNCHANGED <<reqChat, finalMessages, totalTokens, db, consumed, toolMessages>>
    /\ UNCHANGED clientVars

\* the provider stream throws (or is aborted)
StreamThrows ==
    /\ pc = "stream"
    /\ Catch(<<"stream failed">>, "stream exception")
    /\ UNCHANGED <<reqChat, finalMessages, totalTokens, db, consumed, toolMessages>>
    /\ UNCHANGED clientVars

Titles == {"Title"}

\* model.prompt(titlePrompt) returns
TitleReturns ==
    /\ pc = "title"
    /\ \E message \in Titles : reqChat' = [reqChat EXCEPT !.title = message]
    /\ pc' = "put"
    /\ UNCHANGED <<runId, responseId, sequence, activeTextItemId, accumulatedText,
                   written, finalMessages, totalTokens, db, uuids, consumed, fatal, toolMessages>>
    /\ UNCHANGED clientVars

TitleThrows ==
    /\ pc = "title"
    /\ Catch(<<"title failed">>, "title generation")
    /\ UNCHANGED <<reqChat, finalMessages, totalTokens, db, consumed, toolMessages>>
    /\ UNCHANGED clientVars

\* the revisions db.put can report ("" when it reports none)
Revisions == {"1-a", ""}

\* db.put(newChat) returns: response.saved, ctx.res.end()
PutReturns ==
    /\ pc = "put"
    /\ \E rev \in Revisions :
        /\ db' = Append(db, [NewChat(reqChat, finalMessages) EXCEPT !._rev = rev])
        /\ SetRun(emitRunSaved(Run, reqChat._id, rev, totalTokens))
    /\ pc' = "closed"
    /\ UNCHANGED <<reqChat, finalMessages, totalTokens, consumed, fatal, toolMessages>>
    /\ UNCHANGED clientVars

\* a faulty catch block: a failed put still announces the chat as saved
PutThrowsAfterSaved ==
    /\ pc = "put"
    /\ SetRun(emitRunError(emitRunSaved(Run, reqChat._id, "", totalTokens),
                           <<"put failed">>))
    /\ pc' = "closed"
    /\ fatal' = "store write"
    /\ UNCHANGED <<reqChat, finalMessages, totalTokens, db, consumed, toolMessages>>
    /\ UNCHANGED clientVars

\* db.put(newChat) throws
PutThrows ==
    /\ pc = "put"
    /\ Catch(<<"put failed">>, "store write")
    /\ UNCHANGED <<reqChat, finalMessages, totalTokens, db, consumed, toolMessages>>
    /\ UNCHANGED clientVars

ServerNext ==
    \/ Start
    \/ OnContent
    \/ OnToolCallStart
    \/ OnToolCallResult
    \/ OnOtherChunk
    \/ OnErrorChunk
    \/ OnDone
    \/ StreamEnds
    \/ StreamThrows
    \/ TitleReturns
    \/ TitleThrows
    \/ PutReturns
    \/ PutThrows

-----------------------------------------------------------------------------
(* Strings and maps of the chat box *)

IsSpace(ch) == ch \in {" ", "\n"}

\* String.prototype.trim
Trim(s) ==
    LET kept == {i \in 1..Len(s) : ~IsSpace(s[i])}
    IN IF kept = {} THEN <<>>
       ELSE SubSeq(s, CHOOSE i \in kept : \A j \in kept : i <= j,
                      CHOOSE i \in kept : \A j \in kept : i >= j)

\* Array.prototype.join
RECURSIVE Join(_, _)
Join(parts, sep) ==
    IF Len(parts) = 0 THEN <<>>
    ELSE IF Len(parts) = 1 THEN parts[1]
    ELSE parts[1] \o sep \o Join(Tail(parts), sep)

\* the placeholder written for a component segment
Placeholder(id) == "{{toolResult:component:" \o id \o "}}"

\* Map.prototype.set / delete, the empty Map
MapSet(m, k, v) == (k :> v) @@ m
MapDelete(m, k) == [x \in DOMAIN m \ {k} |-> m[x]]
EmptyMap == <<>>

\* responseStates, a Map kept in insertion order: has / get / set
HasState(states, rid) == \E i \in 1..Len(states) : states[i].responseId = rid
GetState(states, rid) ==
    states[CHOOSE i \in 1..Len(states) : states[i].responseId = rid]
SetState(states, rid, state) ==
    IF HasState(states, rid)
    THEN [i \in 1..Len(states) |->
            IF states[i].responseId = rid THEN state ELSE states[i]]
    ELSE Append(states, state)

\* The fields of the component that the helpers read and write, as one record.
Box == [chat |-> chat, updatedChat |-> updatedChat, loading |-> loading,
        responseStates |-> responseStates, itemToResponse |-> itemToResponse,
        messageResponseMap |-> messageResponseMap,
        toolCallComponentMap |-> toolCallComponentMap,
        componentLoading |-> componentLoading,
        activeResponseId |-> activeResponseId,
        lastHydratedKey |-> lastHydratedKey]

TextSegment(id, content) == [id |-> id, type |-> "text", content |-> content]
ComponentSegment(id, component) ==
    [id |-> id, type |-> "component", component |-> component, hidden |-> FALSE]

setComponentLoading(b, componentId, isLoading) ==
    IF componentId = "" THEN b
    ELSE [b EXCEPT !.componentLoading =
            IF isLoading THEN @ \cup {componentId} ELSE @ \ {componentId}]

clearComponentLoading(b, componentId) ==
    IF componentId = "" THEN b ELSE setComponentLoading(b, componentId, FALSE)

\* a faulty reindexResponseSegments: the positions are entered counted from one
reindexResponseSegmentsFromOne(b, rid) ==
    IF ~HasState(b.responseStates, rid) THEN b
    ELSE LET segments == GetState(b.responseStates, rid).segments
             ids == {segments[i].id : i \in 1..Len(segments)}
             last(id) == CHOOSE i \in 1..Len(segments) :
                            /\ segments[i].id = id
                            /\ \A j \in 1..Len(segments) : segments[j].id = id => j <= i
         IN [b EXCEPT !.itemToResponse =
                [id \in ids |-> [responseId |-> rid, segmentIndex |-> last(id)]]
                @@ @]

\* reindexResponseSegments: every segment of the response is entered under
\* its id with its index; a later segment overwrites an earlier one's entry
reindexResponseSegments(b, rid) ==
    IF ~HasState(b.responseStates, rid) THEN b
    ELSE LET segments == GetState(b.responseStates, rid).segments
             ids == {segments[i].id : i \in 1..Len(segments)}
             last(id) == CHOOSE i \in 1..Len(segments) :
                            /\ segments[i].id = id
                            /\ \A j \in 1..Len(segments) : segments[j].id = id => j <= i
         IN [b EXCEPT !.itemToResponse =
                [id \in ids |-> [responseId |-> rid, segmentIndex |-> last(id) - 1]]
                @@ @]

\* locateSegment: the index entry of the id, else the first response state
\* with a segment of that id, which is then entered in the index
locateSegment(b, itemId) ==
    IF itemId \in DOMAIN b.itemToResponse
    THEN [found |-> TRUE, mapping |-> b.itemToResponse[itemId], box |-> b]
    ELSE LET holds(i) == \E k \in 1..Len(b.responseStates[i].segments) :
                            b.responseStates[i].segments[k].id = itemId
             hits == {i \in 1..Len(b.responseStates) : holds(i)}
         IN IF hits = {}
            THEN [found |-> FALSE,
                  mapping |-> [responseId |-> "", segmentIndex |-> 0], box |-> b]
            ELSE LET i == CHOOSE i \in hits : \A j \in hits : i <= j
                     segments == b.responseStates[i].segments
                     k == CHOOSE k \in 1..Len(segments) :
                            /\ segments[k].id = itemId
                            /\ \A j \in 1..Len(segments) :
                                 segments[j].id = itemId => k <= j
                     mapping == [responseId |-> b.responseStates[i].responseId,
                                 segmentIndex |-> k - 1]
                 IN [found |-> TRUE, mapping |-> mapping,
                     box |-> [b EXCEPT !.itemToResponse = MapSet(@, itemId, mapping)]]

-----------------------------------------------------------------------------
(* prompt(): the helpers of the stream callback *)

\* pushAssistantMessage: an empty assistant message is added to the chat
pushAssistantMessage(b, rid) ==
    LET messages == Append(b.updatedChat.messages, Message("assistant", <<>>))
        messageIndex == Len(messages) - 1
    IN [box |-> [b EXCEPT
                    !.messageResponseMap = MapSet(@, messageIndex, rid),
                    !.updatedChat = [@ EXCEPT !.messages = messages],
                    !.chat = [@ EXCEPT !.messages = messages]],
        messageIndex |-> messageIndex]

\* the parts refreshAssistantMessageContent joins: a placeholder for every
\* component that is not hidden, the trimmed content of every text that is
\* not blank
RECURSIVE ContentParts(_)
ContentParts(segments) ==
    IF segments = <<>> THEN <<>>
    ELSE LET segment == Head(segments)
             part == IF segment.type = "component"
                     THEN IF ~segment.hidden THEN <<<<Placeholder(segment.id)>>>>
                          ELSE <<>>
                     ELSE IF Len(Trim(segment.content)) > 0
                          THEN <<Trim(segment.content)>>
                          ELSE <<>>
         IN part \o ContentParts(Tail(segments))

\* refreshAssistantMessageContent: the response's message is rewritten from
\* its segments
refreshAssistantMessageContent(b, rid) ==
    IF ~HasState(b.responseStates, rid) THEN b
    ELSE LET state == GetState(b.responseStates, rid)
             at == state.messageIndex + 1
         IN IF at > Len(b.updatedChat.messages) THEN b
            ELSE LET textContent ==
                        Trim(Join(ContentParts(state.segments), <<"\n", "\n">>))
                     messages == [b.updatedChat.messages EXCEPT
                                    ![at] = [@ EXCEPT !.content = textContent]]
                 IN [b EXCEPT
                        !.updatedChat = [@ EXCEPT !.messages = messages],
                        !.chat = [@ EXCEPT !.messages = messages],
                        !.messageResponseMap = MapSet(@, state.messageIndex, rid)]

\* getOrCreateResponseState: a response seen for the first time gets a state
\* and an assistant message
getOrCreateResponseState(b, rid) ==
    IF ~HasState(b.responseStates, rid)
    THEN LET pushed == pushAssistantMessage(b, rid)
         IN [pushed.box EXCEPT
                !.responseStates =
                    SetState(@, rid, [responseId |-> rid,
                                      messageIndex |-> pushed.messageIndex,
                                      segments |-> <<>>])]
    ELSE [b EXCEPT
            !.messageResponseMap =
                MapSet(@, GetState(b.responseStates, rid).messageIndex, rid)]

\* replaceSegment: segments[segmentIndex] = segment, then reindex and refresh
replaceSegment(b, rid, segmentIndex, segment) ==
    IF ~HasState(b.responseStates, rid) THEN b
    ELSE LET state == GetState(b.responseStates, rid)
             segments == [state.segments EXCEPT ![segmentIndex + 1] = segment]
             b1 == [b EXCEPT !.responseStates =
                        SetState(@, rid, [state EXCEPT !.segments = segments])]
         IN refreshAssistantMessageContent(reindexResponseSegments(b1, rid), rid)

\* appendSegment: the segment goes to the end of the response's segments
appendSegment(b, rid, segment) ==
    LET b1 == getOrCreateResponseState(b, rid)
        state == GetState(b1.responseStates, rid)
        b2 == [b1 EXCEPT !.responseStates =
                  SetState(@, rid, [state EXCEPT !.segments = Append(@, segment)])]
    IN refreshAssistantMessageContent(reindexResponseSegments(b2, rid), rid)

\* the two updaters the callback passes to updateTextSegment
DeltaUpdater(segment, event) == [segment EXCEPT !.content = @ \o event.delta]
CompletedUpdater(segment, event) == [segment EXCEPT !.content = event.text]

\* a faulty updateTextSegment: text for an unknown item opens a new segment
updateTextSegmentOpening(b, itemId, event, completed) ==
    IF itemId \notin DOMAIN b.itemToResponse
    THEN appendSegment(b, event.responseId,
                       TextSegment(itemId, IF completed THEN event.text ELSE event.delta))
    ELSE LET mapping == b.itemToResponse[itemId]
         IN IF ~HasState(b.responseStates, mapping.responseId) THEN b
            ELSE LET state == GetState(b.responseStates, mapping.responseId)
                 IN IF mapping.segmentIndex + 1 > Len(state.segments) THEN b
                    ELSE LET current == state.segments[mapping.segmentIndex + 1]
                         IN IF current.type # "text" THEN b
                            ELSE replaceSegment(b, mapping.responseId,
                                   mapping.segmentIndex,
                                   IF completed THEN CompletedUpdater(current, event)
                                   ELSE DeltaUpdater(current, event))

\* updateTextSegment: only a text segment the index knows is updated
updateTextSegment(b, itemId, event, completed) ==
    IF itemId \notin DOMAIN b.itemToResponse THEN b
    ELSE LET mapping == b.itemToResponse[itemId]
         IN IF ~HasState(b.responseStates, mapping.responseId) THEN b
            ELSE LET state == GetState(b.responseStates, mapping.responseId)
                 IN IF mapping.segmentIndex + 1 > Len(state.segments) THEN b
                    ELSE LET current == state.segments[mapping.segmentIndex + 1]
                         IN IF current.type # "text" THEN b
                            ELSE replaceSegment(b, mapping.responseId,
                                   mapping.segmentIndex,
                                   IF completed THEN CompletedUpdater(current, event)
                                   ELSE DeltaUpdater(current, event))

-----------------------------------------------------------------------------
(* prompt(): the stream callback, one operator per case of its switch *)

onResponseStarted(b, event) ==
    getOrCreateResponseState([b EXCEPT !.activeResponseId = event.responseId],
                             event.responseId)

onOutputItemCreated(b, event) ==
    LET rid == IF event.responseId # "" THEN event.responseId ELSE b.activeResponseId
    IN IF rid = "" THEN b
       ELSE IF event.item.type = "text"
       THEN appendSegment(b, rid, TextSegment(event.item.id, event.item.text))
       ELSE IF event.item.type = "component"
       THEN appendSegment(b, rid, ComponentSegment(event.item.id, event.item.component))
       ELSE b

onOutputTextDelta(b, event) ==
    LET rid == IF event.responseId # "" THEN event.responseId ELSE b.activeResponseId
    IN IF rid = "" THEN b
       ELSE updateTextSegment(b, event.itemId, event, FALSE)

onOutputTextCompleted(b, event) ==
    updateTextSegment(b, event.itemId, event, TRUE)

\* patch.replaceWith as a segment
Replacement(item) ==
    IF item.type = "text" THEN TextSegment(item.id, item.text)
    ELSE ComponentSegment(item.id, item.component)

onOutputItemUpdated(b, event) ==
    LET located == locateSegment(b, event.itemId)
        b0 == located.box
        mapping == located.mapping
    IN IF ~located.found THEN b0
       ELSE IF ~HasState(b0.responseStates, mapping.responseId) THEN b0
       ELSE
       LET state == GetState(b0.responseStates, mapping.responseId)
           at == mapping.segmentIndex + 1
       IN IF at > Len(state.segments) THEN b0
          ELSE
          LET current == state.segments[at]
              hasReplace == "replaceWith" \in DOMAIN event.patch
          IN IF event.patch.state = "hidden" /\ ~hasReplace
             THEN \* the segment is spliced out
                  LET segments == SubSeq(state.segments, 1, at - 1)
                                    \o SubSeq(state.segments, at + 1, Len(state.segments))
                      b1 == [b0 EXCEPT
                               !.responseStates =
                                   SetState(@, mapping.responseId,
                                            [state EXCEPT !.segments = segments]),
                               !.itemToResponse = MapDelete(@, event.itemId)]
                      b2 == refreshAssistantMessageContent(
                               reindexResponseSegments(b1, mapping.responseId),
                               mapping.responseId)
                  IN IF current.type = "component"
                     THEN clearComponentLoading(b2, current.id)
                     ELSE b2
             ELSE IF hasReplace
             THEN \* the segment is replaced where it stands
                  LET b1 == replaceSegment(b0, mapping.responseId, mapping.segmentIndex,
                                           Replacement(event.patch.replaceWith))
                      b2 == [b1 EXCEPT !.itemToResponse = MapDelete(@, event.itemId)]
                  IN clearComponentLoading(b2, event.itemId)
             ELSE IF current.type = "component"
             THEN LET hide == event.patch.state = "hidden"
                      b1 == IF hide THEN clearComponentLoading(b0, current.id) ELSE b0
                  IN replaceSegment(b1, mapping.responseId, mapping.segmentIndex,
                                    [current EXCEPT !.hidden = IF hide THEN TRUE ELSE @])
             ELSE b0

onToolCallStarted(b, event) ==
    LET args == event.arguments
        field(name) == IF args.t = "object" THEN Field(args, name) ELSE Undefined
        componentId ==
            IF IsString(field("componentId")) THEN field("componentId").id
            ELSE IF IsString(field("componentID")) THEN field("componentID").id
            ELSE ""
    IN IF componentId # ""
       THEN [setComponentLoading(b, componentId, TRUE) EXCEPT
                !.toolCallComponentMap = MapSet(@, event.callId, componentId)]
       ELSE b

onToolCallCompleted(b, event) ==
    IF event.callId \in DOMAIN b.toolCallComponentMap
    THEN [clearComponentLoading(b, b.toolCallComponentMap[event.callId]) EXCEPT
            !.toolCallComponentMap = MapDelete(@, event.callId)]
    ELSE b

onResponseCompleted(b, event) ==
    [b EXCEPT !.activeResponseId = "", !.loading = FALSE]

onResponseError(b, event) ==
    [b EXCEPT !.activeResponseId = "", !.loading = FALSE]

onResponseSaved(b, event) ==
    LET saved(c) == [c EXCEPT
                        !._id = event.chatId,
                        !._rev = IF "revision" \in DOMAIN event
                                 THEN event.revision ELSE @]
    IN [b EXCEPT !.chat = saved(@), !.updatedChat = saved(@)]

\* the callback prompt() passes to API.agentChatStream
applyEvent(b, event) ==
    CASE event.type = "response.started" -> onResponseStarted(b, event)
      [] event.type = "response.output_item.created" -> onOutputItemCreated(b, event)
      [] event.type = "response.output_text.delta" -> onOutputTextDelta(b, event)
      [] event.type = "response.output_text.completed" -> onOutputTextCompleted(b, event)
      [] event.type = "response.output_item.updated" -> onOutputItemUpdated(b, event)
      [] event.type = "response.tool_call.started" -> onToolCallStarted(b, event)
      [] event.type = "response.tool_call.completed" -> onToolCallCompleted(b, event)
      [] event.type = "response.completed" -> onResponseCompleted(b, event)
      [] event.type = "response.error" -> onResponseError(b, event)
      [] event.type = "response.saved" -> onResponseSaved(b, event)
      [] OTHER -> b

-----------------------------------------------------------------------------
(* Rehydration from the chat history, and the rendered segments *)

\* the identifiers a placeholder can carry in this model
PlaceholderIds == {"c1", "t1"} \cup {UUID(n) : n \in 1..(8 * MaxChunks + 8)}

\* toolResultComponentPlaceholderRegex: the tokens it matches, with group 1
PlaceholderMatch == [token \in {Placeholder(id) : id \in PlaceholderIds} |->
                        CHOOSE id \in PlaceholderIds : token = Placeholder(id)]

\* a faulty reading of the tool messages: no result is kept
ToolResultsLost(messages) == EmptyMap

\* lines 115-149: the parsed content of every tool message, by tool_call_id;
\* a later message overwrites an earlier one, a malformed one is skipped
RECURSIVE ToolResults(_)
ToolResults(messages) ==
    IF messages = <<>> THEN EmptyMap
    ELSE LET message == messages[Len(messages)]
             rest == ToolResults(SubSeq(messages, 1, Len(messages) - 1))
             text == IF message.json.json = "empty"
                     THEN [json |-> "object", f |-> NoFields]
                     ELSE message.json
             parsed == JSONParse(text)
         IN IF message.role = "tool" /\ message.tool_call_id # "" /\ parsed.ok
            THEN MapSet(rest, message.tool_call_id, parsed.value)
            ELSE rest

HistoryTextId(index, n) ==
    "history-" \o ToString(index) \o "-text-" \o ToString(n)

\* lines 171-221: the segments of one assistant message; from is where the
\* text not yet consumed starts (lastIndex), at the token looked at
RECURSIVE ScanContent(_, _, _, _, _, _)
ScanContent(content, index, toolResults, from, at, segments) ==
    IF at > Len(content)
    THEN LET remaining == Trim(SubSeq(content, from, Len(content)))
         IN IF Len(remaining) > 0
            THEN Append(segments,
                        TextSegment(HistoryTextId(index, Len(segments)), remaining))
            ELSE segments
    ELSE IF content[at] \notin DOMAIN PlaceholderMatch
    THEN ScanContent(content, index, toolResults, from, at + 1, segments)
    ELSE
    LET textBefore == Trim(SubSeq(content, from, at - 1))
        s1 == IF Len(textBefore) > 0
              THEN Append(segments,
                          TextSegment(HistoryTextId(index, Len(segments)), textBefore))
              ELSE segments
        toolId == PlaceholderMatch[content[at]]
        known == toolId \in DOMAIN toolResults /\ Truthy(toolResults[toolId])
        result == IF known THEN toolResults[toolId] ELSE Undefined
        field(name) == IF result.t = "object" THEN Field(result, name) ELSE Undefined
        component == field("component")
        message == field("message")
        s2 == IF /\ known
                 /\ Truthy(component)
                 /\ ~Truthy(field("removeComponentMessage"))
                 /\ component.t = "object"
              THEN LET embedded == Field(component, "componentId")
                   IN Append(s1, ComponentSegment(
                                   IF Truthy(embedded) THEN embedded.id ELSE toolId,
                                   component))
              ELSE IF /\ known
                      /\ Truthy(field("removeComponentMessage"))
                      /\ IsString(message)
                      /\ StrLen(message) > 0
              THEN Append(s1, TextSegment(HistoryTextId(index, Len(s1)), message.s))
              ELSE s1
    IN ScanContent(content, index, toolResults, at + 1, at + 1, s2)

\* lines 156-240: the response states of the assistant messages from at on
RECURSIVE HydrateMessages(_, _, _, _)
HydrateMessages(b, messages, toolResults, at) ==
    IF at > Len(messages) THEN b
    ELSE
    LET message == messages[at]
        index == at - 1
        segments == ScanContent(message.content, index, toolResults, 1, 1, <<>>)
        rid == "history-" \o ToString(index)
        b1 == IF message.role # "assistant" \/ message.content = <<>> \/ segments = <<>>
              THEN b
              ELSE reindexResponseSegments(
                     [b EXCEPT
                        !.responseStates =
                            SetState(@, rid, [responseId |-> rid,
                                              messageIndex |-> index,
                                              segments |-> segments]),
                        !.messageResponseMap = MapSet(@, index, rid)],
                     rid)
    IN HydrateMessages(b1, messages, toolResults, at + 1)

\* a faulty rehydrateFromChatHistory: the reverse index is not cleared
rehydrateKeepingTheIndex(b) ==
    IF Len(b.chat.messages) = 0 THEN b
    ELSE HydrateMessages(
           [b EXCEPT !.responseStates = <<>>,
                     !.messageResponseMap = EmptyMap, !.componentLoading = {}],
           b.chat.messages, ToolResults(b.chat.messages), 1)

\* rehydrateFromChatHistory
rehydrateFromChatHistory(b) ==
    IF Len(b.chat.messages) = 0 THEN b
    ELSE HydrateMessages(
           [b EXCEPT !.responseStates = <<>>, !.itemToResponse = EmptyMap,
                     !.messageResponseMap = EmptyMap, !.componentLoading = {}],
           b.chat.messages, ToolResults(b.chat.messages), 1)

\* the key of the reactive rehydration block
HydrationKey(c) ==
    (IF c._rev = "" THEN "no-rev" ELSE c._rev) \o ":" \o ToString(Len(c.messages))

\* lines 253-263: the reactive block, run when Svelte flushes
reactiveRehydrate(b) ==
    IF b.activeResponseId = "" /\ Len(b.chat.messages) > 0
       /\ HydrationKey(b.chat) # b.lastHydratedKey
    THEN [rehydrateFromChatHistory(b) EXCEPT !.lastHydratedKey = HydrationKey(b.chat)]
    ELSE b

\* getAssistantSegments: what is rendered for the message at index
getAssistantSegments(b, message, index) ==
    IF /\ index \in DOMAIN b.messageResponseMap
       /\ HasState(b.responseStates, b.messageResponseMap[index])
    THEN LET segments == GetState(b.responseStates, b.messageResponseMap[index]).segments
         IN SelectSeq(segments,
                LAMBDA segment :
                    IF segment.type = "component" THEN ~segment.hidden
                    ELSE Len(Trim(segment.content)) > 0)
    ELSE LET content == Trim(message.content)
         IN IF Len(content) > 0
            THEN <<TextSegment(ToString(index) \o "-text", content)>>
            ELSE <<>>

-----------------------------------------------------------------------------
(* The chat box: its actions *)

SetBox(b) ==
    /\ chat' = b.chat
    /\ updatedChat' = b.updatedChat
    /\ loading' = b.loading
    /\ responseStates' = b.responseStates
    /\ itemToResponse' = b.itemToResponse
    /\ messageResponseMap' = b.messageResponseMap
    /\ toolCallComponentMap' = b.toolCallComponentMap
    /\ componentLoading' = b.componentLoading
    /\ activeResponseId' = b.activeResponseId
    /\ lastHydratedKey' = b.lastHydratedKey

NoChat == [_id |-> "", _rev |-> "", agentId |-> "agent", title |-> "",
           messages |-> <<>>]

\* prompt() up to the call of API.agentChatStream: the user's message joins
\* the chat, the pending reactive block runs during the awaited tick, and the
\* chat is posted.  The text area is disabled while loading.
Prompt ==
    /\ pc = "idle"
    /\ ~loading
    /\ LET posted == [chat EXCEPT !.messages = Append(@, Message("user", <<"q">>))]
           b == reactiveRehydrate([Box EXCEPT !.chat = posted, !.updatedChat = posted])
       IN /\ SetBox([b EXCEPT !.loading = TRUE])
          /\ reqChat' = posted
    /\ pc' = "request"
    /\ delivered' = 0
    /\ UNCHANGED <<runId, responseId, sequence, activeTextItemId, accumulatedText,
                   written, finalMessages, totalTokens, db, uuids, consumed, fatal,
                   toolMessages>>

\* the next event of the stream reaches the callback
Deliver(type) ==
    /\ delivered < Len(written)
    /\ written[delivered + 1].type = type
    /\ SetBox(applyEvent(Box, written[delivered + 1]))
    /\ delivered' = delivered + 1
    /\ UNCHANGED serverVars

ResponseStarted == Deliver("response.started")
OutputItemCreated == Deliver("response.output_item.created")
OutputTextDelta == Deliver("response.output_text.delta")
OutputTextCompleted == Deliver("response.output_text.completed")
OutputItemUpdated == Deliver("response.output_item.updated")
ToolCallStarted == Deliver("response.tool_call.started")
ToolCallCompleted == Deliver("response.tool_call.completed")
ResponseCompleted == Deliver("response.completed")
ResponseError == Deliver("response.error")
ResponseSaved == Deliver("response.saved")

\* Svelte flushes: the reactive block finds a chat it has not hydrated
ReactiveRehydrate ==
    /\ activeResponseId = ""
    /\ Len(chat.messages) > 0
    /\ HydrationKey(chat) # lastHydratedKey
    /\ SetBox(reactiveRehydrate(Box))
    /\ UNCHANGED delivered
    /\ UNCHANGED serverVars

ClientNext ==
    \/ Prompt
    \/ ResponseStarted
    \/ OutputItemCreated
    \/ OutputTextDelta
    \/ OutputTextCompleted
    \/ OutputItemUpdated
    \/ ToolCallStarted
    \/ ToolCallCompleted
    \/ ResponseCompleted
    \/ ResponseError
    \/ ResponseSaved
    \/ ReactiveRehydrate

\* the handler before a request: no run, nothing written
ServerInit ==
    /\ runId = ""
    /\ responseId = ""
    /\ sequence = 0
    /\ activeTextItemId = ""
    /\ accumulatedText = <<>>
    /\ written = <<>>
    /\ finalMessages = <<>>
    /\ totalTokens = 0
    /\ db = <<>>
    /\ uuids = 0
    /\ consumed = 0
    /\ fatal = ""
    /\ toolMessages = <<>>

\* the component after onMount
ClientInit ==
    /\ chat = NoChat
    /\ updatedChat = NoChat
    /\ loading = FALSE
    /\ responseStates = <<>>
    /\ itemToResponse = EmptyMap
    /\ messageResponseMap = EmptyMap
    /\ toolCallComponentMap = EmptyMap
    /\ componentLoading = {}
    /\ activeResponseId = ""
    /\ lastHydratedKey = ""
    /\ delivered = 0

\* The chat box is mounted and no request is under way.
Init ==
    /\ pc = "idle"
    /\ reqChat = NoChat
    /\ ServerInit
    /\ ClientInit

Next == ServerNext \/ ClientNext

Spec == Init /\ [][Next]_vars

\* the chats a request can carry: a new chat, and a chat saved before
PostedChats ==
    {[NoChat EXCEPT !.messages = <<Message("user", <<"q">>)>>],
     [_id |-> "agentchat_0", _rev |-> "1-a", agentId |-> "agent", title |-> "Title",
      messages |-> <<Message("user", <<"q">>), Message("assistant", <<"a">>),
                     Message("user", <<"q">>)>>]}

\* agentChatStream alone: a request has arrived with one of the chats
EmitterInit ==
    /\ pc = "request"
    /\ reqChat \in PostedChats
    /\ ServerInit
    /\ ClientInit

EmitterSpec == EmitterInit /\ [][ServerNext]_vars

\* The request handler keeps running: the provider stream yields or finishes,
\* and the awaited title prompt and put settle.
FairEmitterSpec == EmitterSpec /\ WF_vars(ServerNext)

-----------------------------------------------------------------------------
(* Properties of the run emitter *)

EventCount(type) == Cardinality({i \in 1..Len(written) : written[i].type = type})

TerminalTypes == {"response.completed", "response.error"}

\* C1: within one run the sequence numbers of the emitted events are strictly
\* increasing in emission order, so no two events share a sequence number.
SequenceStrictlyIncreasing ==
    \A i, j \in 1..Len(written) :
        i < j => written[i].sequence < written[j].sequence

\* a run that emitted events from several chunks and was closed
SequenceWitness == pc = "closed" /\ Len(written) >= 6 /\ consumed = MaxChunks

\* C2: a run emits exactly one response.started; it is the first event, has
\* sequence 0, and is written before any provider chunk is consumed.
ResponseStartedFirst ==
    /\ EventCount("response.started") <= 1
    /\ pc \notin {"idle", "request"} =>
          /\ Len(written) >= 1
          /\ written[1].type = "response.started"
          /\ written[1].sequence = 0
          /\ EventCount("response.started") = 1
    /\ Len(written) = 0 => consumed = 0

\* the run has started and its first chunk has not been taken yet
ResponseStartedWitness ==
    pc = "stream" /\ consumed = 0 /\ Len(written) = 1
    /\ written[1].type = "response.started"

\* C3: once the response is ended, the last emitted event other than
\* response.saved is response.completed or response.error, whatever the
\* provider stream was.
LastEventIsTerminal ==
    pc = "closed" =>
        LET others == SelectSeq(written, LAMBDA e : e.type # "response.saved")
        IN /\ Len(others) > 0
           /\ others[Len(others)].type \in TerminalTypes

\* C4: when response.saved is emitted, exactly one of response.completed and
\* response.error was emitted before it, and it is response.completed.
SavedFollowsCompleted ==
    \A i \in 1..Len(written) :
        written[i].type = "response.saved" =>
            /\ Cardinality({j \in 1..(i - 1) : written[j].type \in TerminalTypes}) = 1
            /\ \E j \in 1..(i - 1) : written[j].type = "response.completed"

\* the chat was put and response.saved written
SavedWitness ==
    pc = "closed" /\ written[Len(written)].type = "response.saved"

\* C5: a fatal error (error chunk, exception of the provider stream, failed
\* title prompt, failed put) leads to exactly one response.error, and nothing
\* is emitted after it.
FatalErrorEndsRun ==
    /\ EventCount("response.error") <= 1
    /\ \A i \in 1..Len(written) :
          written[i].type = "response.error" => i = Len(written)
    /\ fatal # "" => pc = "closed" /\ EventCount("response.error") = 1

\* the title prompt failed after response.completed
FatalErrorWitness ==
    fatal = "title generation" /\ pc = "closed"
    /\ EventCount("response.completed") = 1

\* C6: a started run terminates: it comes to emit response.completed or
\* response.error and to end the response.
RunTerminates ==
    (pc = "stream") ~>
        (pc = "closed" /\ \E i \in 1..Len(written) : written[i].type \in TerminalTypes)


-----------------------------------------------------------------------------
(* Properties of the chat box *)

\* the callback called with each of the events in turn
RECURSIVE applyEvents(_, _)
applyEvents(b, events) ==
    IF events = <<>> THEN b
    ELSE applyEvents(applyEvent(b, Head(events)), Tail(events))

\* what the template renders: the segments of every assistant message
RenderAll(b) ==
    [i \in 1..Len(b.chat.messages) |->
        IF b.chat.messages[i].role = "assistant"
        THEN getAssistantSegments(b, b.chat.messages[i], i - 1)
        ELSE <<>>]

\* the response of the current run has its live state in the chat box
LiveRun(b) == responseId # "" /\ HasState(b.responseStates, responseId)

\* the rendered segments of the current run's response
LiveSegments(b) ==
    LET index == GetState(b.responseStates, responseId).messageIndex
    IN getAssistantSegments(b, b.chat.messages[index + 1], index)

\* a rendered segment without its id
Unnamed(segment) ==
    IF segment.type = "component"
    THEN [type |-> "component", component |-> segment.component]
    ELSE [type |-> "text", content |-> segment.content]

WithoutIds(segments) == [i \in 1..Len(segments) |-> Unnamed(segments[i])]

\* C7: an event that reaches the callback a second time (same eventId) leaves
\* the rendered segments as they were after the first time.
ReplayedEventChangesNothing ==
    delivered > 0 =>
        RenderAll(applyEvent(Box, written[delivered])) = RenderAll(Box)

\* The chat of a completed run as it is stored: the messages of the chat box,
\* whose assistant text carries the placeholders, and the tool messages of
\* the run.
PersistedChat == [chat EXCEPT !.messages = @ \o toolMessages]

\* C8: after a completed run, rehydrating from the resulting chat renders the
\* same segments, ids apart, as the chat box rendered live from the events.
RehydrationRendersTheLiveSegments ==
    (/\ pc = "closed"
     /\ delivered = Len(written)
     /\ EventCount("response.completed") = 1
     /\ LiveRun(Box)) =>
        LET index == GetState(responseStates, responseId).messageIndex
            history == rehydrateFromChatHistory([Box EXCEPT !.chat = PersistedChat])
        IN WithoutIds(getAssistantSegments(history, PersistedChat.messages[index + 1],
                                           index))
             = WithoutIds(LiveSegments(Box))

\* the tool result that removes component c1 and leaves the message m
RemoveResultChunk ==
    ToolCallResultChunk("t1", ResultText(JStr(<<"m">>), Undefined, JTrue, JId("c1")),
                        <<>>)

\* C9: with component c1 rendered, a successful tool result
\* {removeComponentMessage: true, componentId: c1, message: m} leaves, once
\* all its events are applied, no segment c1 and exactly one new text
\* segment m, where c1 was.
RemoveLeavesOneMessageInPlace ==
    LET before == LiveSegments(Box)
        places == {p \in 1..Len(before) :
                     before[p].type = "component" /\ before[p].id = "c1"}
    IN (/\ CanConsume
        /\ delivered = Len(written)
        /\ LiveRun(Box)
        /\ Cardinality(places) = 1) =>
          LET r == onToolCallResult(Run, RemoveResultChunk)
              events == SubSeq(r.written, Len(written) + 1, Len(r.written))
              after == LiveSegments(applyEvents(Box, events))
              old == {before[p].id : p \in 1..Len(before)}
              new == {q \in 1..Len(after) : after[q].id \notin old}
          IN /\ \A q \in 1..Len(after) : after[q].id # "c1"
             /\ Cardinality(new) = 1
             /\ \A q \in new : /\ q \in places
                               /\ after[q].type = "text"
                               /\ after[q].content = <<"m">>

\* C10: applying an output_item.updated event with state hidden and a
\* replaceWith text item to a rendered component segment at position p puts
\* the replacement text at p, leaves no segment with the component's id,
\* keeps the length of the rendered list and every other segment.
ReplaceWithKeepsThePlace ==
    LET event == written[delivered + 1]
        before == LiveSegments(Box)
        after == LiveSegments(applyEvent(Box, event))
        places == {p \in 1..Len(before) :
                     before[p].type = "component" /\ before[p].id = event.itemId}
    IN (/\ delivered < Len(written)
        /\ event.type = "response.output_item.updated"
        /\ event.patch.state = "hidden"
        /\ "replaceWith" \in DOMAIN event.patch
        /\ event.patch.replaceWith.type = "text"
        /\ LiveRun(Box)
        /\ places # {}) =>
          /\ Len(after) = Len(before)
          /\ \A q \in 1..Len(after) : after[q].id # event.itemId
          /\ \E p \in places :
                /\ after[p] = TextSegment(event.patch.replaceWith.id,
                                          event.patch.replaceWith.text)
                /\ \A q \in 1..Len(before) : q # p => after[q] = before[q]

-----------------------------------------------------------------------------
(* Scenarios of a run, end to end *)

\* the deltas of the events, concatenated in order
RECURSIVE ConcatDeltas(_)
ConcatDeltas(events) ==
    IF events = <<>> THEN <<>>
    ELSE (IF Head(events).type = "response.output_text.delta"
          THEN Head(events).delta ELSE <<>>) \o ConcatDeltas(Tail(events))

\* the chat box has applied the run's response.completed
CompletedApplied ==
    \E i \in 1..delivered : written[i].type = "response.completed"

\* C11: for a provider stream of content chunks c1..cn (n >= 1, each
\* non-empty) followed by done with tokensUsed t, the chat box renders exactly
\* one text segment, whose content is c1..cn concatenated, and
\* response.completed carries tokensUsed = t.
ContentRunRendersOneText ==
    (/\ CompletedApplied
     /\ LiveRun(Box)
     /\ EventCount("response.output_text.delta") >= 1
     /\ consumed = EventCount("response.output_text.delta") + 1
     /\ EventCount("response.output_item.created") = 1) =>
        /\ Len(LiveSegments(Box)) = 1
        /\ LiveSegments(Box)[1].type = "text"
        /\ LiveSegments(Box)[1].content = ConcatDeltas(written)
        /\ \A i \in 1..Len(written) :
              written[i].type = "response.completed" =>
                  written[i].tokensUsed = totalTokens
\* the events a handler has added to those written so far
NewEvents(r) == SubSeq(r.written, Len(written) + 1, Len(r.written))

\* the successful tool results whose decoded result has a component object
ComponentResultChunks ==
    {chunk \in ToolCallResultChunks :
        /\ Len(chunk.toolResult.error) = 0
        /\ chunk.toolResult.result.json = "object"
        /\ Field(JSONParse(chunk.toolResult.result).value, "component").t = "object"}

\* the places (response, position) of the component segments with the id
ComponentPlaces(b, id) ==
    {place \in (1..Len(b.responseStates)) \X (1..(2 * MaxChunks + 2)) :
        /\ place[2] <= Len(b.responseStates[place[1]].segments)
        /\ b.responseStates[place[1]].segments[place[2]].type = "component"
        /\ b.responseStates[place[1]].segments[place[2]].id = id}

\* C12: a successful tool result whose decoded result has a component object
\* leads to exactly one output_item.created for a component item, with the
\* component's componentId as id when it has one and a fresh id otherwise;
\* once the chat box has applied the chunk's events there is exactly one
\* component segment with that id.
ComponentResultMakesOneSegment ==
    (CanConsume /\ delivered = Len(written) /\ LiveRun(Box)) =>
        \A chunk \in ComponentResultChunks :
            LET events == NewEvents(onToolCallResult(Run, chunk))
                created == {i \in 1..Len(events) :
                              /\ events[i].type = "response.output_item.created"
                              /\ events[i].item.type = "component"}
                embedded == Field(Field(JSONParse(chunk.toolResult.result).value,
                                        "component"), "componentId")
            IN /\ Cardinality(created) = 1
               /\ \A i \in created :
                     /\ IF Truthy(embedded)
                        THEN events[i].item.id = embedded.id
                        ELSE events[i].item.id \in
                                {UUID(n) : n \in (uuids + 1)..(uuids + Len(events) + 2)}
                     /\ Cardinality(ComponentPlaces(applyEvents(Box, events),
                                                    events[i].item.id)) = 1
-----------------------------------------------------------------------------
(* The events of one chunk *)

\* the events written by the step that is being taken
StepEvents == SubSeq(written', Len(written) + 1, Len(written'))

\* the step takes a chunk from the provider stream
ChunkTaken == pc = "stream" /\ consumed' = consumed + 1

\* C13: the events of one chunk are emitted in the order item created, item
\* updated, text completed: no output_text.completed before an
\* output_item.created or output_item.updated of the same chunk, and no
\* output_item.updated before an output_item.created of the same chunk.
ChunkEventsInFixedOrder ==
    [][ChunkTaken =>
         \A i, j \in 1..Len(StepEvents) :
            i < j =>
              /\ ~(/\ StepEvents[i].type = "response.output_text.completed"
                   /\ StepEvents[j].type \in {"response.output_item.created",
                                              "response.output_item.updated"})
              /\ ~(/\ StepEvents[i].type = "response.output_item.updated"
                   /\ StepEvents[j].type = "response.output_item.created")]_vars
\* the step takes this tool_call_result chunk from the provider stream
ResultTaken(chunk) ==
    /\ ChunkTaken
    /\ written' = onToolCallResult(Run, chunk).written
    /\ toolMessages' = Append(toolMessages,
                              ToolMessage(chunk.toolResult.id, chunk.toolResult.result))

\* the ids of the items the events create or put in place of another
ItemIds(events) ==
    {events[i].item.id : i \in {k \in 1..Len(events) :
                                  events[k].type = "response.output_item.created"}}
    \cup {events[i].patch.replaceWith.id :
            i \in {k \in 1..Len(events) :
                     /\ events[k].type = "response.output_item.updated"
                     /\ "replaceWith" \in DOMAIN events[k].patch}}

\* C14: for a successful tool result with removeComponentMessage true and a
\* string componentId, the chunk's events have exactly one
\* output_item.updated; it targets componentId with state hidden, and it
\* carries replaceWith, a text item with a fresh id holding the message,
\* exactly when the result has a non-empty string message.
RemoveIsOnePatch ==
    [][\A chunk \in ToolCallResultChunks :
         LET parsed == JSONParse(chunk.toolResult.result)
             result == parsed.value
             message == Field(result, "message")
             updates == {i \in 1..Len(StepEvents) :
                           StepEvents[i].type = "response.output_item.updated"}
         IN (/\ ResultTaken(chunk)
             /\ Len(chunk.toolResult.error) = 0
             /\ chunk.toolResult.result.json = "object"
             /\ Truthy(Field(result, "removeComponentMessage"))
             /\ IsString(Field(result, "componentId"))) =>
               /\ Cardinality(updates) = 1
               /\ \A i \in updates :
                    LET patch == StepEvents[i].patch
                    IN /\ StepEvents[i].itemId = Field(result, "componentId").id
                       /\ patch.state = "hidden"
                       /\ ("replaceWith" \in DOMAIN patch)
                            <=> (IsString(message) /\ StrLen(message) > 0)
                       /\ "replaceWith" \in DOMAIN patch =>
                            /\ patch.replaceWith.type = "text"
                            /\ patch.replaceWith.text = message.s
                            /\ patch.replaceWith.id \notin ItemIds(written)
                            /\ patch.replaceWith.id # StepEvents[i].itemId]_vars

\* a tool result has hidden a component and put its message in its place
RemoveIsOnePatchWitness ==
    \E i \in 1..Len(written) :
        /\ written[i].type = "response.output_item.updated"
        /\ "replaceWith" \in DOMAIN written[i].patch
\* C15: on an error chunk the emitter emits response.error with the chunk's
\* message and retryable = false and ends the response; it takes no further
\* chunk, puts no chat and emits no response.saved.
ErrorChunkEndsRun ==
    [][/\ \A chunk \in ErrorChunks :
            (/\ ChunkTaken
             /\ fatal' = "error chunk"
             /\ written' = onError(Run, chunk).written) =>
                /\ Len(StepEvents) = 1
                /\ StepEvents[1].type = "response.error"
                /\ StepEvents[1].error.message =
                      (IF chunk.content # <<>> THEN chunk.content
                       ELSE <<"An error occurred">>)
                /\ StepEvents[1].error.retryable = FALSE
                /\ pc' = "closed"
                /\ db' = db
                /\ EventCount("response.saved")' = 0
       /\ fatal = "error chunk" => UNCHANGED <<pc, consumed, written, db>>]_vars

\* an error chunk with a message has ended the run after another chunk
ErrorChunkWitness ==
    /\ fatal = "error chunk"
    /\ pc = "closed"
    /\ consumed >= 2
    /\ written[Len(written)].error.message = <<"x">>
FailedPutEndsInError ==
    [][/\ (pc = "put" /\ fatal' = "store write") =>
                /\ Len(StepEvents) = 1
                /\ StepEvents[1].type = "response.error"
                /\ StepEvents[1].error.retryable = FALSE
                /\ pc' = "closed"
                /\ db' = db
                /\ EventCount("response.saved")' = 0
       /\ fatal = "store write" => UNCHANGED <<pc, written, db>>]_vars

\* the put has failed in a run whose response.completed was emitted
FailedPutWitness ==
    /\ fatal = "store write"
    /\ EventCount("response.completed") = 1
    /\ written[Len(written)].type = "response.error"
    /\ db = <<>>
\* C18: when the title prompt fails for an untitled chat after a completed
\* run, the chat is still put in the store, with an empty title, and
\* response.saved is still emitted.
TitleFailureStillSaves ==
    fatal = "title generation" =>
        /\ EventCount("response.completed") = 1
        /\ Len(db) = 1
        /\ db[1].title = ""
        /\ EventCount("response.saved") = 1
\* C19: on a done chunk the emitter closes the active text item, if there is
\* one, with output_text.completed whose text is the concatenation in order
\* of all the deltas of the run, and then emits response.completed with the
\* chunk's token count; both are written in the step that takes the chunk,
\* before the title prompt and the put, which start only after
\* response.completed.
DoneClosesTextThenCompletes ==
    [][/\ \A chunk \in DoneChunks :
            (/\ ChunkTaken
             /\ finalMessages' = chunk.messages
             /\ totalTokens' = chunk.tokensUsed
             /\ written' = onDone(Run, chunk).written) =>
                LET n == Len(StepEvents)
                IN /\ IF activeTextItemId # ""
                      THEN /\ n = 2
                           /\ StepEvents[1].type = "response.output_text.completed"
                           /\ StepEvents[1].itemId = activeTextItemId
                           /\ StepEvents[1].text = ConcatDeltas(written)
                      ELSE n = 1
                   /\ StepEvents[n].type = "response.completed"
                   /\ StepEvents[n].tokensUsed = chunk.tokensUsed
                   /\ pc' \in {"title", "put", "closed"}
                   /\ db' = db
                   /\ reqChat'.title = reqChat.title
       /\ pc \in {"title", "put"} =>
            written[Len(written)].type = "response.completed"]_vars

\* a run of two deltas was closed by a done chunk and waits for its title
DoneWitness ==
    /\ pc = "title"
    /\ EventCount("response.output_text.delta") = 2
    /\ EventCount("response.completed") = 1
    /\ written[Len(written) - 1].type = "response.output_text.completed"
    /\ Len(written[Len(written) - 1].text) = 2
    /\ written[Len(written)].tokensUsed = 12
\* C20: the tool_call.completed event of a tool_call_result chunk has status
\* "error" exactly when the chunk carries an error string and "success"
\* otherwise; with status "error" it has no result, with status "success" it
\* has no error, so it never carries both.
ToolCallStatusFollowsChunk ==
    [][\A chunk \in ToolCallResultChunks :
          ResultTaken(chunk) =>
              LET completed == {i \in 1..Len(StepEvents) :
                                  StepEvents[i].type = "response.tool_call.completed"}
                  event == StepEvents[1]
              IN /\ completed = {1}
                 /\ event.callId = chunk.toolResult.id
                 /\ event.status = "error" <=> Len(chunk.toolResult.error) > 0
                 /\ event.status = "success" <=> Len(chunk.toolResult.error) = 0
                 /\ event.status = "error" =>
                        /\ event.result = Undefined
                        /\ event.error = [message |-> chunk.toolResult.error]
                 /\ event.status = "success" => event.error = Undefined
                 /\ event.result = Undefined \/ event.error = Undefined]_vars

\* a run has reported one tool call as failed and one as a success with a
\* result
ToolCallStatusWitness ==
    /\ \E i \in 1..Len(written) :
          /\ written[i].type = "response.tool_call.completed"
          /\ written[i].status = "error"
    /\ \E i \in 1..Len(written) :
          /\ written[i].type = "response.tool_call.completed"
          /\ written[i].status = "success"
          /\ written[i].result # Undefined
\* C21: the directives of a tool result are applied only when the tool call
\* succeeded with a result that decodes to an object: for a tool_call_result
\* chunk with an error string, or with any other result, the step writes the
\* tool_call.completed event and nothing else.
DirectivesNeedAnObjectResult ==
    [][\A chunk \in ToolCallResultChunks :
          (/\ ResultTaken(chunk)
           /\ \/ Len(chunk.toolResult.error) > 0
              \/ chunk.toolResult.result.json # "object") =>
              /\ Len(StepEvents) = 1
              /\ StepEvents[1].type = "response.tool_call.completed"]_vars

\* a run took a failed tool call and one with a result that is no object, and
\* wrote nothing but their tool_call.completed events
DirectivesWitness ==
    /\ consumed = 2
    /\ Len(written) = 3
    /\ \E i \in 2..3 : written[i].type = "response.tool_call.completed"
                       /\ written[i].status = "error"
    /\ \E i \in 2..3 : written[i].type = "response.tool_call.completed"
                       /\ written[i].result.t = "string"
\* C22: for every tool_call_start chunk, whatever its arguments string, the
\* step writes exactly one tool_call.started whose arguments is a mapping
\* (the decoded object, or {raw: string} when the string does not decode to
\* one), writes no response.error, and leaves the run consuming the stream.
ToolCallStartedCarriesAMapping ==
    [][\A chunk \in ToolCallStartChunks :
          (ChunkTaken /\ written' = onToolCallStart(Run, chunk).written) =>
              /\ Len(StepEvents) = 1
              /\ StepEvents[1].type = "response.tool_call.started"
              /\ StepEvents[1].callId = chunk.toolCall.id
              /\ StepEvents[1].arguments.t = "object"
              /\ StepEvents[1].arguments =
                    (IF chunk.toolCall.arguments.json = "object"
                     THEN JObj(chunk.toolCall.arguments.f)
                     ELSE JObj([raw |-> chunk.toolCall.arguments]))
              /\ pc' = "stream"
              /\ fatal' = fatal]_vars

-----------------------------------------------------------------------------
(* Events out of their order *)

\* the callback called with each of the events in turn, Svelte flushing the
\* reactive block after each call
RECURSIVE applyEventsFlushing(_, _)
applyEventsFlushing(b, events) ==
    IF events = <<>> THEN b
    ELSE applyEventsFlushing(reactiveRehydrate(applyEvent(b, Head(events))),
                             Tail(events))

\* C23: when the events of a run reach the callback without its
\* response.started, an output_item.created makes the response state and one
\* assistant message, the later deltas and patches of the run reach the same
\* segments as they do after a response.started, and a response.started that
\* arrives afterwards adds no response state and no message and changes no
\* segment.
CreatedBeforeStartedIsTolerated ==
    (delivered = 0 /\ Len(written) >= 2) =>
        \A j \in 2..Len(written) :
            (\E i \in 2..j : written[i].type = "response.output_item.created") =>
                LET late == applyEventsFlushing(Box, SubSeq(written, 2, j))
                    inOrder == applyEventsFlushing(Box, SubSeq(written, 1, j))
                    after == reactiveRehydrate(applyEvent(late, written[1]))
                IN /\ HasState(late.responseStates, responseId)
                   /\ Len(late.responseStates) = Len(inOrder.responseStates)
                   /\ Len(late.chat.messages) = Len(chat.messages) + 1
                   /\ GetState(late.responseStates, responseId).segments =
                        GetState(inOrder.responseStates, responseId).segments
                   /\ after.responseStates = late.responseStates
                   /\ after.chat.messages = late.chat.messages

-----------------------------------------------------------------------------
(* The reverse index and the rendered view *)

\* every entry of itemToResponse names a response state and a position in it
\* where a segment of that id stands
IndexCorrect(b) ==
    \A id \in DOMAIN b.itemToResponse :
        LET mapping == b.itemToResponse[id]
        IN /\ HasState(b.responseStates, mapping.responseId)
           /\ LET segments == GetState(b.responseStates, mapping.responseId).segments
              IN /\ mapping.segmentIndex + 1 \in 1..Len(segments)
                 /\ segments[mapping.segmentIndex + 1].id = id

\* the ids of all segments of the chat box
SegmentIds(b) ==
    UNION {{b.responseStates[i].segments[k].id :
              k \in 1..Len(b.responseStates[i].segments)} :
           i \in 1..Len(b.responseStates)}

\* C24: after every applied event every entry of the reverse index is
\* correct: the segment at the entry's position in the entry's response has
\* the entry's id, so no entry is left for a segment that was removed or
\* replaced.  This includes a patch that removes a segment, and a replaceWith
\* whose new id is the old id, applied to any segment of the chat box.
ReverseIndexIsCorrect ==
    /\ IndexCorrect(Box)
    /\ \A id \in SegmentIds(Box) :
          \A patch \in {[state |-> "hidden"],
                        [state |-> "hidden", replaceWith |-> TextItem(id, <<"m">>)]} :
              IndexCorrect(applyEvent(Box,
                  [type |-> "response.output_item.updated", responseId |-> responseId,
                   itemId |-> id, patch |-> patch]))

\* a replacement has been applied in a run that had made two segments of one
\* id
ReverseIndexWitness ==
    /\ delivered > 0
    /\ written[delivered].type = "response.output_item.updated"
    /\ "replaceWith" \in DOMAIN written[delivered].patch
    /\ DOMAIN itemToResponse # {}
    /\ \E i, j \in 1..delivered :
          /\ i < j
          /\ written[i].type = "response.output_item.created"
          /\ written[j].type = "response.output_item.created"
          /\ written[i].item.id = written[j].item.id

\* the segment is not hidden
Shown(segment) == ~(segment.type = "component" /\ segment.hidden)

\* C25: what is rendered for a response is, in order, exactly its segments
\* that are not hidden; and a component hidden by a patch with state hidden
\* and no replaceWith stays in the segments of its response, its hidden flag
\* set, and is left out of what is rendered.
RenderedAreTheShownSegments ==
    LiveRun(Box) =>
        LET state == GetState(responseStates, responseId)
        IN /\ LiveSegments(Box) = SelectSeq(state.segments, Shown)
           /\ \A k \in 1..Len(state.segments) :
                state.segments[k].type = "component" =>
                    LET id == state.segments[k].id
                        hiding == applyEvent(Box,
                            [type |-> "response.output_item.updated",
                             responseId |-> responseId, itemId |-> id,
                             patch |-> [state |-> "hidden"]])
                        segments == GetState(hiding.responseStates, responseId).segments
                    IN /\ Len(segments) = Len(state.segments)
                       /\ \E l \in 1..Len(segments) :
                            segments[l].id = id /\ segments[l].hidden
                       /\ \A l \in 1..Len(LiveSegments(hiding)) :
                            LiveSegments(hiding)[l].id = id =>
                                \E m \in 1..Len(segments) :
                                    segments[m].id = id /\ ~segments[m].hidden

\* the events of the run that name an item
ItemEventTypes ==
    {"response.output_item.updated", "response.output_text.delta",
     "response.output_text.completed"}

\* C26: an output_item.updated, output_text.delta or output_text.completed
\* whose itemId is the id of no segment changes nothing: response states,
\* segments, reverse index and chat messages stay as they are, so the events
\* after it are applied as they would be without it.
UnknownItemIsIgnored ==
    \A i \in 1..Len(written) :
        (/\ written[i].type \in ItemEventTypes
         /\ written[i].itemId \notin SegmentIds(Box)) =>
            /\ applyEvent(Box, written[i]) = Box
            /\ applyEvent(Box, [written[i] EXCEPT !.itemId = "ghost"]) = Box

\* the chat box holds segments of the run and an event of each kind for an
\* item that is none of them
UnknownItemWitness ==
    /\ LiveRun(Box)
    /\ SegmentIds(Box) # {}
    /\ \A type \in ItemEventTypes :
          \E i \in 1..Len(written) :
              written[i].type = type /\ written[i].itemId \notin SegmentIds(Box)

-----------------------------------------------------------------------------
(* Rehydration *)

\* what rehydrateFromChatHistory leaves in a chat box that holds chat c
Hydrated(b, c) ==
    LET history == rehydrateFromChatHistory([b EXCEPT !.chat = c])
    IN [responseStates |-> history.responseStates,
        itemToResponse |-> history.itemToResponse,
        messageResponseMap |-> history.messageResponseMap,
        componentLoading |-> history.componentLoading]

\* the chat with the tool messages of the run, as a stored chat has them
WithToolMessages(c) == [c EXCEPT !.messages = @ \o toolMessages]

\* C27: rehydration depends on the chat alone: whatever the live events left
\* in the chat box, rehydrating it with a chat gives the response states,
\* reverse index and message-to-response map that a chat box without any
\* history gives for that chat, and nothing of the live state remains.
RehydrationDependsOnTheChatAlone ==
    LET fresh == [Box EXCEPT !.responseStates = <<>>, !.itemToResponse = EmptyMap,
                             !.messageResponseMap = EmptyMap,
                             !.toolCallComponentMap = EmptyMap,
                             !.componentLoading = {}, !.activeResponseId = "",
                             !.lastHydratedKey = ""]
    IN \A c \in {chat, WithToolMessages(chat)} \cup PostedChats :
          Len(c.messages) > 0 =>
              /\ Hydrated(Box, c) = Hydrated(fresh, c)
              /\ \A i \in 1..Len(Hydrated(Box, c).responseStates) :
                    Hydrated(Box, c).responseStates[i].responseId # responseId

\* the chat box holds live segments of a run, with components, that
\* rehydration replaces
RehydrationWitness ==
    /\ LiveRun(Box)
    /\ DOMAIN itemToResponse # {}
    /\ toolMessages # <<>>
    /\ Hydrated(Box, WithToolMessages(chat)).responseStates # <<>>
    /\ Hydrated(Box, WithToolMessages(chat)).responseStates # responseStates

\* The chats a chat box can be mounted with: a user message, an assistant
\* message whose text is made of letters, blanks and placeholders, and the
\* message of tool call t1 with one of the result texts.
HistoryChats ==
    LET tokens == {"a", " ", Placeholder("t1"), Placeholder("c1")}
        contents == UNION {[1..n -> tokens] : n \in 0..MaxLen}
    IN {[_id |-> "agentchat_0", _rev |-> "1-a", agentId |-> "agent", title |-> "Title",
         messages |-> <<Message("user", <<"q">>), Message("assistant", content),
                        ToolMessage("t1", text)>>] :
            content \in contents, text \in ResultTexts}

\* the chat box is mounted with a stored chat
HydrateInit ==
    /\ pc = "idle"
    /\ reqChat = NoChat
    /\ ServerInit
    /\ chat \in HistoryChats
    /\ updatedChat = chat
    /\ loading = FALSE
    /\ responseStates = <<>>
    /\ itemToResponse = EmptyMap
    /\ messageResponseMap = EmptyMap
    /\ toolCallComponentMap = EmptyMap
    /\ componentLoading = {}
    /\ activeResponseId = ""
    /\ lastHydratedKey = ""
    /\ delivered = 0

\* rehydration alone: the reactive block runs on the mounted chat
HydrateSpec == HydrateInit /\ [][ReactiveRehydrate]_vars

\* The segments, ids apart, that the text of an assistant message stands
\* for: what stands before its last placeholder, then what the placeholder
\* resolves to through the tool messages, then the trimmed text after it.
RECURSIVE ExpectedSegments(_, _)
ExpectedSegments(content, messages) ==
    LET places == {i \in 1..Len(content) : content[i] \in DOMAIN PlaceholderMatch}
        textOf(stretch) == IF Len(Trim(stretch)) > 0
                           THEN <<[type |-> "text", content |-> Trim(stretch)]>>
                           ELSE <<>>
    IN IF places = {} THEN textOf(content)
       ELSE
       LET p == CHOOSE i \in places : \A j \in places : j <= i
           toolId == PlaceholderMatch[content[p]]
           from == {i \in 1..Len(messages) :
                      /\ messages[i].role = "tool"
                      /\ messages[i].tool_call_id = toolId
                      /\ messages[i].json.json = "object"}
           fields == messages[CHOOSE i \in from : \A j \in from : j <= i].json.f
           removes == from # {} /\ Truthy(fields.removeComponentMessage)
           resolved ==
               IF from = {} THEN <<>>
               ELSE IF ~removes /\ fields.component.t = "object"
               THEN <<[type |-> "component", component |-> fields.component]>>
               ELSE IF removes /\ IsString(fields.message) /\ StrLen(fields.message) > 0
               THEN <<[type |-> "text", content |-> fields.message.s]>>
               ELSE <<>>
       IN ExpectedSegments(SubSeq(content, 1, p - 1), messages)
            \o resolved
            \o textOf(SubSeq(content, p + 1, Len(content)))

\* C28: for each assistant message rehydration makes the segments in the
\* order of its text: each trimmed stretch of text that is not empty, between
\* or around placeholders, is one text segment; a placeholder that resolves
\* to a component result is one component segment; one that resolves to a
\* removeComponentMessage result is its replacement text only; one that
\* resolves to nothing, or to a result without component, adds nothing.
HydratedSegmentsFollowTheText ==
    lastHydratedKey # "" =>
        \A at \in 1..Len(chat.messages) :
            chat.messages[at].role = "assistant" =>
                LET expected == ExpectedSegments(chat.messages[at].content, chat.messages)
                    rid == "history-" \o ToString(at - 1)
                IN IF expected = <<>> THEN ~HasState(responseStates, rid)
                   ELSE /\ HasState(responseStates, rid)
                        /\ GetState(responseStates, rid).messageIndex = at - 1
                        /\ WithoutIds(GetState(responseStates, rid).segments) = expected

\* a text with a placeholder between two letters was rehydrated into a text,
\* a component and a text
HydratedWitness ==
    /\ lastHydratedKey # ""
    /\ HasState(responseStates, "history-1")
    /\ LET segments == GetState(responseStates, "history-1").segments
       IN /\ Len(segments) = 3
          /\ segments[1].type = "text"
          /\ segments[2].type = "component"
          /\ segments[3].type = "text"

\* C29: the text written for the assistant message of a response is its
\* segments one after the other, each component as a placeholder that carries
\* the id of the tool call that made it, so that rehydration resolves every
\* written placeholder, through the tool message of that call, to the same
\* component.
WrittenPlaceholdersResolve ==
    (LiveRun(Box) /\ delivered = Len(written)) =>
        LET state == GetState(responseStates, responseId)
            content == chat.messages[state.messageIndex + 1].content
            isComponent(segment) == segment.type = "component"
            components == SelectSeq(LiveSegments(Box), isComponent)
            placeholders == SelectSeq(content, LAMBDA ch : ch \in DOMAIN PlaceholderMatch)
            calls == {toolMessages[i].tool_call_id : i \in 1..Len(toolMessages)}
            history == Hydrated(Box, WithToolMessages(chat)).responseStates
            rid == "history-" \o ToString(state.messageIndex)
            resolved == IF HasState(history, rid)
                        THEN SelectSeq(GetState(history, rid).segments, isComponent)
                        ELSE <<>>
        IN /\ Len(placeholders) = Len(components)
           /\ \A k \in 1..Len(placeholders) : PlaceholderMatch[placeholders[k]] \in calls
           /\ Len(resolved) = Len(components)
           /\ \A k \in 1..Len(components) :
                resolved[k].component = components[k].component

\* C30: the debug annotation of the stored assistant text is ignored by
\* rehydration: an assistant message that calls a tool gives the same
\* segments whether or not its content went through addDebugInformation
\* (compared in a chat box that has rehydrated its chat).
DebugAnnotationIsIgnored ==
    LET toolCall == [id |-> "t1", name |-> "tool", arguments |-> "{}"]
        calling == [i \in 1..Len(chat.messages) |->
                      IF chat.messages[i].role = "assistant"
                      THEN [chat.messages[i] EXCEPT !.tool_calls = <<toolCall>>]
                      ELSE chat.messages[i]]
        plain == [chat EXCEPT !.messages = calling]
        annotated == [chat EXCEPT !.messages = addDebugInformation(calling)]
    IN lastHydratedKey # "" =>
          Hydrated(Box, annotated).responseStates = Hydrated(Box, plain).responseStates

-----------------------------------------------------------------------------
(* Identity, sessions and the end of a run *)

\* C31: item ids are unique in the conversation: no output_item.created
\* carries the id of an item created earlier, and no two segments of the chat
\* box, of one response or of two, have the same id.
ItemIdsAreUnique ==
    /\ \A i, j \in 1..Len(written) :
          (/\ i < j
           /\ written[i].type = "response.output_item.created"
           /\ written[j].type = "response.output_item.created") =>
              written[i].item.id # written[j].item.id
    /\ \A i, j \in 1..Len(responseStates) :
          \A k \in 1..Len(responseStates[i].segments) :
              \A l \in 1..Len(responseStates[j].segments) :
                  (i # j \/ k # l) =>
                      responseStates[i].segments[k].id # responseStates[j].segments[l].id

\* the components rendered with their submit handler (template: Component
\* on:submit={submitComponent}); submitComponent calls prompt() unguarded
SubmittableComponents(b) ==
    UNION {{RenderAll(b)[i][k].id :
              k \in {l \in 1..Len(RenderAll(b)[i]) : RenderAll(b)[i][l].type = "component"}} :
           i \in 1..Len(RenderAll(b))}

\* a run was started by prompt() and the chat box has handled neither its
\* response.completed nor its response.error
RunOutstanding ==
    /\ pc # "idle"
    /\ \A i \in 1..delivered : written[i].type \notin {"response.completed", "response.error"}

\* C32: at most one run is active in a chat session: while a run is
\* outstanding the chat box offers no way to start another, neither the text
\* area (disabled while loading) nor the submit of a rendered component.
NoSecondRunCanStart ==
    RunOutstanding =>
        /\ loading
        /\ SubmittableComponents(Box) = {}

\* C33: a tool call does not close the streamed text item: all deltas of the
\* run, before and after tool calls, carry the id of one text item that was
\* created once, before the first delta, and output_text.completed for that
\* item is written only with the done chunk, right before response.completed.
StreamedTextStaysOpen ==
    LET deltas == {i \in 1..Len(written) : written[i].type = "response.output_text.delta"}
    IN \A i \in deltas :
          /\ \A j \in deltas : written[j].itemId = written[i].itemId
          /\ Cardinality({k \in 1..Len(written) :
                            /\ written[k].type = "response.output_item.created"
                            /\ written[k].item.id = written[i].itemId}) = 1
          /\ \E k \in 1..(i - 1) :
                /\ written[k].type = "response.output_item.created"
                /\ written[k].item.id = written[i].itemId
          /\ \A k \in 1..Len(written) :
                (/\ written[k].type = "response.output_text.completed"
                 /\ written[k].itemId = written[i].itemId) =>
                    /\ i < k
                    /\ k < Len(written)
                    /\ written[k + 1].type = "response.completed"

\* a delta, then a tool call, then another delta
StreamedTextWitness ==
    \E i, j, k \in 1..Len(written) :
        /\ i < j /\ j < k
        /\ written[i].type = "response.output_text.delta"
        /\ written[j].type = "response.tool_call.started"
        /\ written[k].type = "response.output_text.delta"

\* C34: response.saved is written only in the step in which db.put returns;
\* it carries the id of the chat that was put, which is the id the posted
\* chat had or, when it had none, a newly made one; and it carries a
\* revision exactly when the store reported one, and then that one.
SavedReportsThePut ==
    [][/\ reqChat._id # "" => reqChat'._id = reqChat._id
       /\ EventCount("response.saved")' > EventCount("response.saved") =>
            LET event == written'[Len(written')]
                stored == db'[Len(db')]
            IN /\ pc = "put"
               /\ Len(StepEvents) = 1
               /\ event.type = "response.saved"
               /\ Len(db') = Len(db) + 1
               /\ fatal' = ""
               /\ event.chatId # ""
               /\ event.chatId = reqChat._id
               /\ event.chatId = stored._id
               /\ ("revision" \in DOMAIN event) <=> stored._rev # ""
               /\ ("revision" \in DOMAIN event) => event.revision = stored._rev]_vars

\* response.saved was written for a chat that had no id, and the store
\* reported no revision
SavedReportsWitness ==
    /\ EventCount("response.saved") = 1
    /\ "revision" \notin DOMAIN written[Len(written)]
    /\ written[Len(written)].chatId # "agentchat_0"
    /\ Len(db) = 1
    /\ db[1].title = "Title"

\* C35: while a run is being streamed to the chat box, from its first applied
\* event until its response.completed or response.error, the reactive block
\* does not rehydrate, so the live state and the reverse index are not
\* cleared; this also when the response.started was lost and the state was
\* made by the first output_item.created.
NoRehydrationMidRun ==
    LET streaming(events) ==
            /\ events # <<>>
            /\ \A i \in 1..Len(events) :
                  events[i].type \notin {"response.completed", "response.error"}
    IN /\ streaming(SubSeq(written, 1, delivered)) => reactiveRehydrate(Box) = Box
       /\ delivered = 0 =>
            \A j \in 2..Len(written) :
                streaming(SubSeq(written, 2, j)) =>
                    LET b == applyEvents(Box, SubSeq(written, 2, j))
                    IN reactiveRehydrate(b) = b

\* C36: what is rendered for the response is the same right after the chat
\* box has handled response.completed, and the reactive block that the
\* cleared activeResponseId lets run, as right before: no text or component
\* that was visible while streaming is removed or altered (ids apart).
CompletionKeepsTheRenderedSegments ==
    (/\ delivered < Len(written)
     /\ written[delivered + 1].type = "response.completed"
     /\ LiveRun(Box)) =>
        LET at == GetState(responseStates, responseId).messageIndex + 1
            after == reactiveRehydrate(applyEvent(Box, written[delivered + 1]))
        IN WithoutIds(RenderAll(after)[at]) = WithoutIds(RenderAll(Box)[at])

\* submitComponent: the component is marked loading and prompt() is called
\* with the form data as a system message; this prompt() has its own
\* updatedChat, made from the chat of the moment, and posts it
submitComponent(b, componentId) ==
    LET posted == [b.chat EXCEPT !.messages = Append(@, Message("system", <<"s">>))]
        marked == setComponentLoading(b, componentId, TRUE)
    IN [reactiveRehydrate([marked EXCEPT !.chat = posted, !.updatedChat = posted])
            EXCEPT !.loading = TRUE]

\* every response state sits at an assistant message of chat.messages, the
\* message-to-response map sends that index to its response, and no two
\* response states sit at the same message
MessageIndexCorrect(b) ==
    /\ \A i \in 1..Len(b.responseStates) :
          LET state == b.responseStates[i]
          IN /\ state.messageIndex + 1 \in 1..Len(b.chat.messages)
             /\ b.chat.messages[state.messageIndex + 1].role = "assistant"
             /\ state.messageIndex \in DOMAIN b.messageResponseMap
             /\ b.messageResponseMap[state.messageIndex] = state.responseId
    /\ \A i, j \in 1..Len(b.responseStates) :
          i # j => b.responseStates[i].messageIndex # b.responseStates[j].messageIndex

\* C37: in every state of the chat box each response state's messageIndex is
\* the index of an assistant message of chat.messages, the message-to-response
\* map sends that index to that response, and no two response states share a
\* messageIndex; also when a second prompt, started by the submit of a
\* rendered component while the first run is outstanding, has its events
\* handled in between those of the first.
MessageIndexIsKept ==
    /\ MessageIndexCorrect(Box)
    /\ (RunOutstanding /\ delivered < Len(written)) =>
          \A componentId \in SubmittableComponents(Box) :
              LET second == submitComponent(Box, componentId)
                  started == [written[1] EXCEPT !.responseId = "second"]
                  b == applyEvent(second, started)
                  first == [b EXCEPT !.updatedChat = updatedChat]
              IN /\ MessageIndexCorrect(b)
                 /\ MessageIndexCorrect(applyEvent(first, written[delivered + 1]))

=============================================================================
